---- MODULE Spec2Model ----
(***************************************************************************)
(* Model of common/demo2.py: six FastAPI route handlers whose parameters   *)
(* are declared with Query/Path/Body/Field constraints.  A request is      *)
(* received, its declared parameters are validated and bound, and only     *)
(* then the handler body runs and its return value becomes the response.   *)
(*                                                                         *)
(* Encoding: text checked against a pattern is a sequence of characters;   *)
(* an optional value (T | None) is a sequence of length at most one;       *)
(* a dict / JSON object / query string is a function from keys to values;  *)
(* decimal numbers are integers in a fixed unit.                           *)
(***************************************************************************)
EXTENDS Integers, Sequences, FiniteSets, TLC

\* ---------------------------------------------------------------- bounds
NumSlots == 2          \* requests in flight at once (concurrent specification)
Slack == 1             \* how far past each declared limit the inputs reach
MaxAmount == 2         \* prices and taxes range over 0..MaxAmount

\* ------------------------------------------------- declared constraints
QMinLength == 3
QMaxLength == 50
ItemIdGe == 1
ItemIdLe == 1000
LimintDefault == 10
LimintGe == 1
LimintLe == 100
OffsetDefault == 0
OffsetGe == 0
AgeGe == 0
AgeLe == 120

\* ------------------------------------------------------------- encoding
None == <<>>
Some(v) == <<v>>
Opt(S) == {None} \cup {Some(v) : v \in S}

EmptyDict == [k \in {} |-> None]

\* dict.update({k: v})
Update(d, k, v) == [x \in DOMAIN d \cup {k} |-> IF x = k THEN v ELSE d[x]]

\* one key of a query string or JSON object, present only when supplied
Param(k, o) == IF o = None THEN EmptyDict ELSE (k :> o[1])

\* dict.get(k) / dict.get(k, default)
Get(d, k) == IF k \in DOMAIN d THEN Some(d[k]) ELSE None
GetOr(d, k, dflt) == IF k \in DOMAIN d THEN d[k] ELSE dflt

Letters ==
    {"a","b","c","d","e","f","g","h","i","j","k","l","m",
     "n","o","p","q","r","s","t","u","v","w","x","y","z",
     "A","B","C","D","E","F","G","H","I","J","K","L","M",
     "N","O","P","Q","R","S","T","U","V","W","X","Y","Z"}

\* pattern="^[A-Za-z]+$"
MatchesPattern(v) == Len(v) >= 1 /\ \A i \in 1..Len(v) : v[i] \in Letters

QDefault == <<"f","i","n","d","i","n","d","e","x">>

\* Python truthiness ("if q:") of text held as characters, of a str, and of
\* an optional str
TruthyChars(v) == Len(v) > 0
TruthyStr(v) == v /= ""
TruthyOptStr(o) == o /= None /\ o[1] /= ""

\* ----------------------------------------------------------------- models
\* class Item(BaseModel): the fields a payload must carry
ItemMissing(p) == {f \in {"name", "price"} : f \notin DOMAIN p}

\* an Item built from a valid payload, as model_dump() shows it
Item(p) ==
    [name |-> p["name"], description |-> Get(p, "description"),
     price |-> p["price"], tax |-> Get(p, "tax")]

\* variant: lt=120 in place of le=120
AgeInRangeOpen(a) == a >= AgeGe /\ a < AgeLe

\* age: int = Field(..., ge=0, le=120)
AgeInRange(a) == a >= AgeGe /\ a <= AgeLe

\* class User(BaseModel): the fields of a payload that fail validation
UserInvalid(p) ==
    {f \in {"name", "age"} : f \notin DOMAIN p}
        \cup (IF "age" \in DOMAIN p /\ ~AgeInRange(p["age"]) THEN {"age"} ELSE {})

User(p) == [name |-> p["name"], age |-> p["age"]]

FilterFields == {"limint", "offset", "order_by", "tags"}
OrderByLiteral == {"created_at", "update_at"}
ImportanceLiteral == {"low", "medium", "high"}

\* variant: importance declared as plain str
ImportanceAny(v) == TRUE

\* importance: Annotated[Literal["low", "medium", "high"], Body()]
ImportanceOk(v) == v \in ImportanceLiteral

\* variant: extra keys ignored (no "extra": "forbid")
FilterExtraIgnored(qs) == {}

\* model_config = {"extra": "forbid"}
FilterExtra(qs) == DOMAIN qs \ FilterFields

\* class FilterParams(BaseModel): the query keys that fail validation
FilterInvalid(qs) ==
    FilterExtra(qs)
        \cup (IF "limint" \in DOMAIN qs
                 /\ ~(qs["limint"] >= LimintGe /\ qs["limint"] <= LimintLe)
              THEN {"limint"} ELSE {})
        \cup (IF "offset" \in DOMAIN qs /\ ~(qs["offset"] >= OffsetGe)
              THEN {"offset"} ELSE {})
        \cup (IF "order_by" \in DOMAIN qs /\ qs["order_by"] \notin OrderByLiteral
              THEN {"order_by"} ELSE {})

FilterParams(qs) ==
    [limint |-> GetOr(qs, "limint", LimintDefault),
     offset |-> GetOr(qs, "offset", OffsetDefault),
     order_by |-> GetOr(qs, "order_by", "created_at"),
     tags |-> GetOr(qs, "tags", <<>>)]

\* --------------------------------------------------------------- requests
\* A request: the endpoint it is routed to, the path parameter (None when the
\* route has none), the query string and the JSON body (None when absent).
Request(ep, path, query, body) ==
    [ep |-> ep, path |-> path, query |-> query, body |-> body]

NoRequest == Request("none", None, EmptyDict, None)

\* body parameter `key`: the whole body, or the body's member `key` when the
\* parameter is embedded (several body parameters, or Body(embed=True))
BodyParam(body, key, embed) ==
    IF ~embed THEN body
    ELSE IF body = None THEN None ELSE Get(body[1], key)

\* ------------------------------------------------- validation and binding
\* variant: max_length left out
QLengthOkNoMax(v) == Len(v) >= QMinLength

\* Query(max_length=50, min_length=3)
QLengthOk(v) == Len(v) >= QMinLength /\ Len(v) <= QMaxLength

\* read_item(q: Annotated[str, Query(..., alias="item-query")] = "findindex")
Errors_read_item(r) ==
    IF "item-query" \in DOMAIN r.query
         /\ ~(QLengthOk(r.query["item-query"])
                /\ MatchesPattern(r.query["item-query"]))
    THEN {<<"query", "item-query">>} ELSE {}

\* variant: the default None of the commented-out signature
Args_read_item_DefaultNone(r) == [q |-> GetOr(r.query, "item-query", None)]

Args_read_item(r) == [q |-> GetOr(r.query, "item-query", QDefault)]

\* create_item(item: Item)
Errors_create_item(r) ==
    IF r.body = None THEN {<<"body", "item">>}
    ELSE {<<"item", f>> : f \in ItemMissing(r.body[1])}

Args_create_item(r) == [item |-> Item(r.body[1])]

\* variant: gt=1, lt=1000 in place of ge=1, le=1000
ItemIdInRangeExclusive(i) == i > ItemIdGe /\ i < ItemIdLe

\* Path(ge=1, le=1000)
ItemIdInRange(i) == i >= ItemIdGe /\ i <= ItemIdLe

\* read_item_by_id(*, q: str, item_id: Annotated[int, Path(...)],
\*                 item: Item | None = None)
Errors_read_item_by_id(r) ==
    (IF "q" \notin DOMAIN r.query THEN {<<"query", "q">>} ELSE {})
        \cup (IF ~ItemIdInRange(r.path[1]) THEN {<<"path", "item_id">>} ELSE {})
        \cup (IF r.body = None THEN {}
              ELSE {<<"item", f>> : f \in ItemMissing(r.body[1])})

Args_read_item_by_id(r) ==
    [q |-> r.query["q"], item_id |-> r.path[1],
     item |-> IF r.body = None THEN None ELSE Some(Item(r.body[1]))]

\* about(filter_params: Annotated[FilterParams, Query()])
Errors_about(r) == {<<"query", k>> : k \in FilterInvalid(r.query)}

Args_about(r) == [filter_params |-> FilterParams(r.query)]

\* create_user(user_id: int, user: User, item: Item,
\*             importance: Annotated[Literal[...], Body()] = "medium",
\*             q: str | None = None)
Errors_create_user(r) ==
    LET user == BodyParam(r.body, "user", TRUE)
        item == BodyParam(r.body, "item", TRUE)
        importance == BodyParam(r.body, "importance", TRUE)
    IN  (IF user = None THEN {<<"body", "user">>}
         ELSE {<<"user", f>> : f \in UserInvalid(user[1])})
        \cup (IF item = None THEN {<<"body", "item">>}
              ELSE {<<"item", f>> : f \in ItemMissing(item[1])})
        \cup (IF importance /= None /\ ~ImportanceOk(importance[1])
              THEN {<<"body", "importance">>} ELSE {})

Args_create_user(r) ==
    LET importance == BodyParam(r.body, "importance", TRUE)
    IN  [user_id |-> r.path[1],
         user |-> User(BodyParam(r.body, "user", TRUE)[1]),
         item |-> Item(BodyParam(r.body, "item", TRUE)[1]),
         importance |-> IF importance = None THEN "medium" ELSE importance[1],
         q |-> Get(r.query, "q")]

\* variant: Body() without embed=True
UserBodyFlat(body) == BodyParam(body, "user", FALSE)

\* user: Annotated[User, Body(embed=True)]
UserBody(body) == BodyParam(body, "user", TRUE)

\* update_user(user_id: int, user: Annotated[User, Body(embed=True)])
Errors_update_user(r) ==
    IF UserBody(r.body) = None THEN {<<"body", "user">>}
    ELSE {<<"user", f>> : f \in UserInvalid(UserBody(r.body)[1])}

Args_update_user(r) ==
    [user_id |-> r.path[1], user |-> User(UserBody(r.body)[1])]

Errors(r) ==
    CASE r.ep = "read_item" -> Errors_read_item(r)
      [] r.ep = "create_item" -> Errors_create_item(r)
      [] r.ep = "read_item_by_id" -> Errors_read_item_by_id(r)
      [] r.ep = "about" -> Errors_about(r)
      [] r.ep = "create_user" -> Errors_create_user(r)
      [] r.ep = "update_user" -> Errors_update_user(r)

Args(r) ==
    CASE r.ep = "read_item" -> Args_read_item(r)
      [] r.ep = "create_item" -> Args_create_item(r)
      [] r.ep = "read_item_by_id" -> Args_read_item_by_id(r)
      [] r.ep = "about" -> Args_about(r)
      [] r.ep = "create_user" -> Args_create_user(r)
      [] r.ep = "update_user" -> Args_update_user(r)

\* ------------------------------------------------------------------ state
VARIABLES
    req,        \* per slot: the request being served (NoRequest when idle)
    pc,         \* per slot: "idle", "received", "bound", "responded", "rejected"
    args,       \* per slot: the keyword arguments bound for the handler
    errors,     \* per slot: the violations reported to the caller
    ran,        \* per slot: whether the handler body has executed
    response    \* per slot: the mapping returned by the handler

vars == <<req, pc, args, errors, ran, response>>

Slots == 1..NumSlots

\* --------------------------------------------------------- handler bodies
\* results: dict[str, Any] = {"items": [{"item_id": "Foo"},{"item_id": "Bar"}]}
Results_read_item == ("items" :> <<[item_id |-> "Foo"], [item_id |-> "Bar"]>>)

read_item(q) ==
    IF TruthyChars(q) THEN Update(Results_read_item, "q", q)
    ELSE Results_read_item

\* variant: the tax left out of the sum
TaxIgnored(tax) == 0

\* (item.tax or 0.0)
TaxOrZero(tax) == IF tax /= None /\ tax[1] /= 0 THEN tax[1] ELSE 0

create_item(item) ==
    LET item_dict == item
        price_with_tax == item.price + TaxOrZero(item.tax)
    IN  Update(item_dict, "price_with_tax", price_with_tax)

read_item_by_id(q, item_id, item) ==
    LET r0 == ("item_id" :> item_id)
        r1 == IF TruthyStr(q) THEN Update(r0, "q", q) ELSE r0
    IN  IF item /= None THEN Update(r1, "item", item[1]) ELSE r1

about(filter_params) == filter_params

\* variant: a results mapping kept between calls, so that what other
\* requests put in it stays
Results_create_user_Kept(user, item) ==
    LET others == {t \in Slots : pc[t] = "responded" /\ req[t].ep = "create_user"}
        base == IF others = {} THEN EmptyDict
                ELSE response[CHOOSE t \in others : TRUE]
    IN  Update(Update(base, "user", user), "item", item)

\* results = {"user": user,"item": item}
Results_create_user(user, item) == [user |-> user, item |-> item]

create_user(user_id, user, item, importance, q) ==
    LET r0 == Results_create_user(user, item)
        r1 == IF TruthyOptStr(q) THEN Update(r0, "q", q[1]) ELSE r0
    IN  IF TruthyStr(importance) THEN Update(r1, "importance", importance) ELSE r1

update_user(user_id, user) == [user_id |-> user_id, user |-> user]

\* ----------------------------------------------------------------- inputs
\* Values on and around the declared limits.  `full` selects the wide input
\* sets of the one-request-at-a-time specification; the concurrent
\* specification draws from a few representative requests per endpoint.
Around(lo, hi) == UNION {{lo - k, lo + k, hi - k, hi + k} : k \in 0..Slack}

\* n characters, letters of both cases, with a digit at position `bad`
Str(n, bad) ==
    [i \in 1..n |-> IF i = bad THEN "1" ELSE IF i % 2 = 1 THEN "a" ELSE "Z"]

QValues(full) ==
    LET lens == IF full THEN {n \in Around(QMinLength, QMaxLength) : n >= 0}
                ELSE {QMinLength}
    IN  UNION {{Str(n, b) : b \in {0, 1, n}} : n \in lens}

Amounts(full) == IF full THEN 0..MaxAmount ELSE {1}

ItemPayloads(full) ==
    {Param("name", n) @@ Param("description", d)
        @@ Param("price", p) @@ Param("tax", t) :
        n \in IF full THEN Opt({"Foo"}) ELSE {Some("Foo")},
        d \in IF full THEN Opt({"A thing"}) ELSE {None},
        p \in Opt(Amounts(full)),
        t \in IF full THEN Opt(Amounts(full)) ELSE {None}}

ItemSamples ==
    {("name" :> "Foo") @@ ("price" :> 1) @@ ("tax" :> 1), ("name" :> "Foo")}

ItemIds(full) ==
    IF full THEN Around(ItemIdGe, ItemIdLe) ELSE {ItemIdGe - 1, ItemIdLe}

Limints(full) ==
    IF full THEN Around(LimintGe, LimintLe) ELSE {LimintLe + 1}

Offsets == UNION {{OffsetGe - k, OffsetGe + k} : k \in 0..Slack}

Ages(full) == IF full THEN Around(AgeGe, AgeLe) ELSE {AgeGe, AgeLe, AgeLe + 1}

UserPayloads(full) ==
    {Param("name", n) @@ Param("age", a) :
        n \in IF full THEN Opt({"A"}) ELSE {Some("A")},
        a \in IF full THEN Opt(Ages(full)) ELSE {Some(x) : x \in Ages(full)}}

UserIds == {1, 2}

Inputs_read_item(full) ==
    {Request("read_item", None, Param("item-query", v) @@ Param("q", w), None) :
        v \in Opt(QValues(full)),
        w \in IF full THEN Opt({"foo"}) ELSE {None}}

Inputs_create_item(full) ==
    {Request("create_item", None, EmptyDict, b) :
        b \in IF full THEN Opt(ItemPayloads(full))
              ELSE {Some(p) : p \in ItemPayloads(full)}}

Inputs_read_item_by_id(full) ==
    {Request("read_item_by_id", Some(i), Param("q", q), b) :
        i \in ItemIds(full),
        q \in IF full THEN Opt({"", "foo"}) ELSE Opt({"foo"}),
        b \in IF full THEN Opt(ItemSamples) ELSE {None}}

Inputs_about(full) ==
    {Request("about", None,
             Param("limint", l) @@ Param("limit", m) @@ Param("offset", o)
                @@ Param("order_by", b) @@ Param("tags", t) @@ Param("sort", x),
             None) :
        l \in Opt(Limints(full)),
        m \in IF full THEN Opt(Limints(full)) ELSE {None},
        o \in IF full THEN Opt(Offsets) ELSE {None},
        b \in IF full THEN Opt(OrderByLiteral \cup {"invalid"})
              ELSE Opt({"update_at"}),
        t \in IF full THEN Opt({<<"red", "blue">>}) ELSE {None},
        x \in IF full THEN Opt({"asc"}) ELSE {None}}

Inputs_create_user(full) ==
    {Request("create_user", Some(id), Param("q", q),
             Some(Param("user", u) @@ Param("item", i) @@ Param("importance", m))) :
        id \in IF full THEN UserIds ELSE {1},
        q \in IF full THEN Opt({"", "foo"}) ELSE Opt({"foo"}),
        u \in IF full THEN Opt(UserPayloads(full))
              ELSE {Some(p) : p \in UserPayloads(full)},
        i \in IF full THEN Opt(ItemSamples)
              ELSE {Some(("name" :> "Foo") @@ ("price" :> 1))},
        m \in IF full THEN Opt(ImportanceLiteral \cup {"urgent"})
              ELSE Opt({"high"})}
        \cup (IF full THEN {Request("create_user", Some(1), EmptyDict, None)}
              ELSE {})

Inputs_update_user(full) ==
    {Request("update_user", Some(id), EmptyDict, b) :
        id \in IF full THEN UserIds ELSE {1},
        b \in {Some("user" :> p) : p \in UserPayloads(full)}
               \cup {Some(p) : p \in UserPayloads(full)}
               \cup (IF full THEN {None} ELSE {})}

Endpoints ==
    {"read_item", "create_item", "read_item_by_id", "about", "create_user",
     "update_user"}

Inputs(ep, full) ==
    CASE ep = "read_item" -> Inputs_read_item(full)
      [] ep = "create_item" -> Inputs_create_item(full)
      [] ep = "read_item_by_id" -> Inputs_read_item_by_id(full)
      [] ep = "about" -> Inputs_about(full)
      [] ep = "create_user" -> Inputs_create_user(full)
      [] ep = "update_user" -> Inputs_update_user(full)

\* ---------------------------------------------------------------- actions
Init ==
    /\ req = [s \in Slots |-> NoRequest]
    /\ pc = [s \in Slots |-> "idle"]
    /\ args = [s \in Slots |-> EmptyDict]
    /\ errors = [s \in Slots |-> {}]
    /\ ran = [s \in Slots |-> FALSE]
    /\ response = [s \in Slots |-> EmptyDict]

\* a request arrives and is routed to its endpoint
Receive(s, full) ==
    /\ pc[s] = "idle"
    /\ \E ep \in Endpoints : \E r \in Inputs(ep, full) :
            req' = [req EXCEPT ![s] = r]
    /\ pc' = [pc EXCEPT ![s] = "received"]
    /\ UNCHANGED <<args, errors, ran, response>>

\* the declared parameters are validated; the handler is reached only with
\* no violation, otherwise the violations are the reply
Validate(s) ==
    /\ pc[s] = "received"
    /\ IF Errors(req[s]) = {}
       THEN /\ args' = [args EXCEPT ![s] = Args(req[s])]
            /\ pc' = [pc EXCEPT ![s] = "bound"]
            /\ UNCHANGED errors
       ELSE /\ errors' = [errors EXCEPT ![s] = Errors(req[s])]
            /\ pc' = [pc EXCEPT ![s] = "rejected"]
            /\ UNCHANGED args
    /\ UNCHANGED <<req, ran, response>>

\* the handler body runs to its return statement
Return(s, ep, results) ==
    /\ pc[s] = "bound"
    /\ req[s].ep = ep
    /\ response' = [response EXCEPT ![s] = results]
    /\ ran' = [ran EXCEPT ![s] = TRUE]
    /\ pc' = [pc EXCEPT ![s] = "responded"]
    /\ UNCHANGED <<req, args, errors>>

ReadItem(s) == Return(s, "read_item", read_item(args[s].q))

CreateItem(s) == Return(s, "create_item", create_item(args[s].item))

ReadItemById(s) ==
    Return(s, "read_item_by_id",
           read_item_by_id(args[s].q, args[s].item_id, args[s].item))

About(s) == Return(s, "about", about(args[s].filter_params))

CreateUser(s) ==
    Return(s, "create_user",
           create_user(args[s].user_id, args[s].user, args[s].item,
                       args[s].importance, args[s].q))

UpdateUser(s) ==
    Return(s, "update_user", update_user(args[s].user_id, args[s].user))

\* the reply has been sent; the request's objects are discarded
Finish(s) ==
    /\ pc[s] \in {"responded", "rejected"}
    /\ req' = [req EXCEPT ![s] = NoRequest]
    /\ pc' = [pc EXCEPT ![s] = "idle"]
    /\ args' = [args EXCEPT ![s] = EmptyDict]
    /\ errors' = [errors EXCEPT ![s] = {}]
    /\ ran' = [ran EXCEPT ![s] = FALSE]
    /\ response' = [response EXCEPT ![s] = EmptyDict]

\* one request at a time, inputs on and around every declared limit
Next ==
    \E s \in {1} :
        \/ Receive(s, TRUE)
        \/ Validate(s)
        \/ ReadItem(s)
        \/ CreateItem(s)
        \/ ReadItemById(s)
        \/ About(s)
        \/ CreateUser(s)
        \/ UpdateUser(s)
        \/ Finish(s)

Spec == Init /\ [][Next]_vars

\* NumSlots requests in flight, their steps interleaved in any order
NextConc ==
    \E s \in Slots :
        \/ Receive(s, FALSE)
        \/ Validate(s)
        \/ ReadItem(s)
        \/ CreateItem(s)
        \/ ReadItemById(s)
        \/ About(s)
        \/ CreateUser(s)
        \/ UpdateUser(s)
        \/ Finish(s)

SpecConc == Init /\ [][NextConc]_vars

\* ================================================================ claims
\* a request whose validation has been decided
Decided(s) == pc[s] \in {"bound", "responded", "rejected"}

Accepted(s) == pc[s] \in {"bound", "responded"}

Rejected(s) == pc[s] = "rejected"

HasItemFields(p) == "name" \in DOMAIN p /\ "price" \in DOMAIN p

HasUserFields(p) == "name" \in DOMAIN p /\ "age" \in DOMAIN p

\* the declared constraints of each endpoint, stated on the raw request
Satisfies(r) ==
    CASE r.ep = "read_item" ->
            "item-query" \in DOMAIN r.query =>
                LET v == r.query["item-query"]
                IN  /\ Len(v) >= 3 /\ Len(v) <= 50
                    /\ \A i \in 1..Len(v) : v[i] \in Letters
      [] r.ep = "create_item" ->
            r.body /= None /\ HasItemFields(r.body[1])
      [] r.ep = "read_item_by_id" ->
            /\ r.path[1] \in 1..1000
            /\ "q" \in DOMAIN r.query
            /\ r.body /= None => HasItemFields(r.body[1])
      [] r.ep = "about" ->
            /\ DOMAIN r.query \subseteq {"limint", "offset", "order_by", "tags"}
            /\ "limit" \in DOMAIN r.query => r.query["limit"] \in 1..100
            /\ "limint" \in DOMAIN r.query => r.query["limint"] \in 1..100
            /\ "offset" \in DOMAIN r.query => r.query["offset"] >= 0
            /\ "order_by" \in DOMAIN r.query =>
                    r.query["order_by"] \in {"created_at", "update_at"}
      [] r.ep = "create_user" ->
            /\ r.body /= None
            /\ "user" \in DOMAIN r.body[1]
            /\ HasUserFields(r.body[1]["user"])
            /\ r.body[1]["user"]["age"] \in 0..120
            /\ "item" \in DOMAIN r.body[1]
            /\ HasItemFields(r.body[1]["item"])
            /\ "importance" \in DOMAIN r.body[1] =>
                    r.body[1]["importance"] \in {"low", "medium", "high"}
      [] r.ep = "update_user" ->
            /\ r.body /= None
            /\ "user" \in DOMAIN r.body[1]
            /\ HasUserFields(r.body[1]["user"])
            /\ r.body[1]["user"]["age"] \in 0..120

\* C1: the handler body has executed for a request only if the request
\* satisfies every declared constraint of its endpoint; a request violating a
\* constraint ends rejected, with no handler execution and no response mapping.
C1_ValidatedBeforeHandler ==
    \A s \in Slots :
        /\ ran[s] => Satisfies(req[s])
        /\ Accepted(s) => Satisfies(req[s])
        /\ (Decided(s) /\ ~Satisfies(req[s])) =>
                Rejected(s) /\ ~ran[s] /\ response[s] = EmptyDict /\ errors[s] /= {}

C1_Witness ==
    \E s \in Slots :
        /\ req[s].ep = "create_user"
        /\ Rejected(s)
        /\ req[s].body /= None
        /\ "importance" \in DOMAIN req[s].body[1]
        /\ req[s].body[1]["importance"] = "urgent"
        /\ errors[s] = {<<"body", "importance">>}

\* C2: on GET /items a supplied item-query value v is rejected when it is
\* shorter than 3, longer than 50 or holds a non-letter; otherwise it is
\* accepted and the response holds "q" with exactly v.
C2_ItemQueryChecked ==
    \A s \in Slots :
        (req[s].ep = "read_item" /\ Decided(s) /\ "item-query" \in DOMAIN req[s].query) =>
            LET v == req[s].query["item-query"]
                bad == \/ Len(v) < 3
                       \/ Len(v) > 50
                       \/ \E i \in 1..Len(v) : v[i] \notin Letters
            IN  /\ bad => Rejected(s)
                /\ ~bad => Accepted(s)
                /\ (~bad /\ pc[s] = "responded") =>
                        "q" \in DOMAIN response[s] /\ response[s]["q"] = v

C2_Witness ==
    \E s \in Slots :
        /\ req[s].ep = "read_item"
        /\ pc[s] = "responded"
        /\ "item-query" \in DOMAIN req[s].query
        /\ Len(req[s].query["item-query"]) = 50
        /\ response[s]["q"] = req[s].query["item-query"]

\* C3: on GET /itemes/about a request carrying limit=v and no undeclared key
\* is accepted exactly when 1 <= v <= 100, and the returned filter shape then
\* has limit = v; with limit omitted the returned shape has limit = 10.
C3_LimitBoundsAndDefault ==
    \A s \in Slots :
        (/\ req[s].ep = "about"
         /\ Decided(s)
         /\ DOMAIN req[s].query \subseteq {"limit", "offset", "order_by", "tags"}
         /\ "offset" \in DOMAIN req[s].query => req[s].query["offset"] >= 0
         /\ "order_by" \in DOMAIN req[s].query =>
                req[s].query["order_by"] \in {"created_at", "update_at"}) =>
            IF "limit" \in DOMAIN req[s].query
            THEN /\ Accepted(s) <=> req[s].query["limit"] \in 1..100
                 /\ pc[s] = "responded" =>
                        /\ "limit" \in DOMAIN response[s]
                        /\ response[s]["limit"] = req[s].query["limit"]
            ELSE /\ Accepted(s)
                 /\ pc[s] = "responded" =>
                        /\ "limit" \in DOMAIN response[s]
                        /\ response[s]["limit"] = 10

\* C4: on GET /itemes/about a query key not declared on FilterParams, an
\* offset below 0 and an order_by outside {"created_at", "update_at"} are each
\* rejected; an accepted request returns order_by = "created_at", offset = 0
\* and tags = the empty sequence for whichever of them it omits.
C4_FilterClosedShapeAndDefaults ==
    \A s \in Slots :
        (req[s].ep = "about" /\ Decided(s)) =>
            LET qs == req[s].query
            IN  /\ ~(DOMAIN qs \subseteq {"limint", "offset", "order_by", "tags"})
                        => Rejected(s)
                /\ ("offset" \in DOMAIN qs /\ qs["offset"] < 0) => Rejected(s)
                /\ ("order_by" \in DOMAIN qs
                        /\ qs["order_by"] \notin {"created_at", "update_at"})
                        => Rejected(s)
                /\ pc[s] = "responded" =>
                        /\ "order_by" \notin DOMAIN qs =>
                                response[s]["order_by"] = "created_at"
                        /\ "offset" \notin DOMAIN qs => response[s]["offset"] = 0
                        /\ "tags" \notin DOMAIN qs => response[s]["tags"] = <<>>

C4_Witness ==
    \E s \in Slots :
        /\ req[s].ep = "about"
        /\ pc[s] = "responded"
        /\ DOMAIN req[s].query = {"limint"}
        /\ response[s]["order_by"] = "created_at"
        /\ response[s]["offset"] = 0
        /\ response[s]["tags"] = <<>>

\* C5: on POST /items/ every valid Item payload is accepted and the response
\* holds name, description, price and tax unchanged plus price_with_tax, which
\* is price + tax when tax is present and price when tax is absent.
C5_PriceWithTax ==
    \A s \in Slots :
        (req[s].ep = "create_item" /\ Decided(s) /\ req[s].body /= None
            /\ HasItemFields(req[s].body[1])) =>
            LET p == req[s].body[1]
            IN  /\ Accepted(s)
                /\ pc[s] = "responded" =>
                        /\ DOMAIN response[s] =
                             {"name", "description", "price", "tax", "price_with_tax"}
                        /\ response[s]["name"] = p["name"]
                        /\ response[s]["description"] = Get(p, "description")
                        /\ response[s]["price"] = p["price"]
                        /\ response[s]["tax"] = Get(p, "tax")
                        /\ response[s]["price_with_tax"] =
                             IF "tax" \in DOMAIN p THEN p["price"] + p["tax"]
                             ELSE p["price"]

C5_Witness ==
    \E s \in Slots :
        /\ req[s].ep = "create_item"
        /\ pc[s] = "responded"
        /\ "tax" \in DOMAIN req[s].body[1]
        /\ req[s].body[1]["tax"] > 0
        /\ response[s]["price_with_tax"] > response[s]["price"]

\* C6: on GET /items/{item_id} a request is rejected when item_id < 1 or
\* item_id > 1000 and when q is omitted; with 1 <= item_id <= 1000, q supplied
\* and no body it is accepted and the response's item_id is the path value.
C6_ItemIdBoundsAndRequiredQ ==
    \A s \in Slots :
        (req[s].ep = "read_item_by_id" /\ Decided(s)) =>
            LET id == req[s].path[1]
            IN  /\ (id < 1 \/ id > 1000) => Rejected(s)
                /\ "q" \notin DOMAIN req[s].query => Rejected(s)
                /\ (id >= 1 /\ id <= 1000 /\ "q" \in DOMAIN req[s].query
                        /\ req[s].body = None) =>
                        /\ Accepted(s)
                        /\ pc[s] = "responded" =>
                                /\ "item_id" \in DOMAIN response[s]
                                /\ response[s]["item_id"] = id

C6_Witness ==
    \E s \in Slots :
        /\ req[s].ep = "read_item_by_id"
        /\ pc[s] = "responded"
        /\ req[s].path[1] = 1000
        /\ req[s].body = None
        /\ response[s]["item_id"] = 1000

\* the user payload of a request to one of the two endpoints that take one,
\* when every input other than the age's value is valid
UserOfValidOthers(r) ==
    IF r.body = None \/ r.ep \notin {"create_user", "update_user"} THEN None
    ELSE LET b == r.body[1]
         IN  IF ~("user" \in DOMAIN b /\ HasUserFields(b["user"])) THEN None
             ELSE IF r.ep = "update_user" THEN Some(b["user"])
             ELSE IF /\ "item" \in DOMAIN b
                     /\ HasItemFields(b["item"])
                     /\ "importance" \in DOMAIN b =>
                            b["importance"] \in {"low", "medium", "high"}
                  THEN Some(b["user"]) ELSE None

\* C7: on POST /users/create{user_id} and PUT /users/{user_id} a request whose
\* other inputs are valid is accepted exactly when 0 <= age <= 120.
C7_AgeBounds ==
    \A s \in Slots :
        (Decided(s) /\ UserOfValidOthers(req[s]) /= None) =>
            LET age == UserOfValidOthers(req[s])[1]["age"]
            IN  Accepted(s) <=> (age >= 0 /\ age <= 120)

C7_Witness ==
    \E s \in Slots :
        /\ req[s].ep = "create_user"
        /\ pc[s] = "responded"
        /\ response[s]["user"]["age"] = 120

\* C8: on PUT /users/{user_id} a body nesting a valid User under "user" is
\* accepted and the response holds the path's user_id and the nested user; a
\* body carrying name and age flat at the top level is rejected.
C8_UserEmbedded ==
    \A s \in Slots :
        (req[s].ep = "update_user" /\ Decided(s) /\ req[s].body /= None) =>
            LET b == req[s].body[1]
            IN  /\ ("user" \in DOMAIN b /\ HasUserFields(b["user"])
                        /\ b["user"]["age"] \in 0..120) =>
                        /\ Accepted(s)
                        /\ pc[s] = "responded" =>
                                /\ DOMAIN response[s] = {"user_id", "user"}
                                /\ response[s]["user_id"] = req[s].path[1]
                                /\ response[s]["user"]["name"] = b["user"]["name"]
                                /\ response[s]["user"]["age"] = b["user"]["age"]
                /\ ("user" \notin DOMAIN b /\ HasUserFields(b)) => Rejected(s)

C8_Witness ==
    \E s \in Slots :
        /\ req[s].ep = "update_user"
        /\ Rejected(s)
        /\ req[s].body /= None
        /\ DOMAIN req[s].body[1] = {"name", "age"}
        /\ req[s].body[1]["age"] \in 0..120

FixedItems == <<[item_id |-> "Foo"], [item_id |-> "Bar"]>>

\* C9 as stated: on GET /items every accepted response holds the fixed item
\* list, and "q" is in the response exactly when item-query was supplied.
C9_QOnlyWhenSupplied ==
    \A s \in Slots :
        (req[s].ep = "read_item" /\ pc[s] = "responded") =>
            /\ response[s]["items"] = FixedItems
            /\ "q" \in DOMAIN response[s] <=> "item-query" \in DOMAIN req[s].query

\* C9 as amended: on GET /items every accepted response holds the fixed item
\* list and always holds "q": the supplied item-query value when one was
\* supplied, the default "findindex" when it was omitted.
C9_QSuppliedOrDefault ==
    \A s \in Slots :
        (req[s].ep = "read_item" /\ pc[s] = "responded") =>
            /\ DOMAIN response[s] = {"items", "q"}
            /\ response[s]["items"] = FixedItems
            /\ response[s]["q"] =
                    IF "item-query" \in DOMAIN req[s].query
                    THEN req[s].query["item-query"]
                    ELSE <<"f", "i", "n", "d", "i", "n", "d", "e", "x">>

C9_Witness ==
    \E s \in Slots :
        /\ req[s].ep = "read_item"
        /\ pc[s] = "responded"
        /\ "item-query" \notin DOMAIN req[s].query
        /\ "q" \in DOMAIN response[s]

Completed(s) == pc[s] \in {"responded", "rejected"}

\* what a response may hold, stated on the request it answers
FromOwnRequest(r, out) ==
    CASE r.ep = "read_item" ->
            /\ DOMAIN out \subseteq {"items", "q"}
            /\ out["items"] = FixedItems
            /\ ("q" \in DOMAIN out /\ "item-query" \in DOMAIN r.query) =>
                    out["q"] = r.query["item-query"]
      [] r.ep = "create_item" ->
            /\ out["name"] = r.body[1]["name"]
            /\ out["price"] = r.body[1]["price"]
            /\ out["description"] = Get(r.body[1], "description")
            /\ out["tax"] = Get(r.body[1], "tax")
      [] r.ep = "read_item_by_id" ->
            /\ DOMAIN out \subseteq {"item_id", "q", "item"}
            /\ out["item_id"] = r.path[1]
            /\ "q" \in DOMAIN out => out["q"] = r.query["q"]
            /\ "item" \in DOMAIN out =>
                    r.body /= None /\ out["item"] = Item(r.body[1])
      [] r.ep = "about" -> out = FilterParams(r.query)
      [] r.ep = "create_user" ->
            /\ DOMAIN out \subseteq {"user", "item", "q", "importance"}
            /\ out["user"] = User(r.body[1]["user"])
            /\ out["item"] = Item(r.body[1]["item"])
            /\ "q" \in DOMAIN out =>
                    "q" \in DOMAIN r.query /\ out["q"] = r.query["q"]
            /\ "importance" \in DOMAIN out =>
                    out["importance"] = GetOr(r.body[1], "importance", "medium")
      [] r.ep = "update_user" ->
            /\ DOMAIN out = {"user_id", "user"}
            /\ out["user_id"] = r.path[1]
            /\ out["user"] = User(r.body[1]["user"])

\* C10: handlers share no mutable state: under any interleaving the outcome
\* of a request depends on that request's inputs only, two requests with the
\* same inputs get the same outcome whatever else is in flight, and nothing of
\* one request (such as its "q") shows up in the response to another.
C10_NoSharedState ==
    \A s \in Slots :
        /\ Completed(s) => (Rejected(s) <=> ~Satisfies(req[s]))
        /\ pc[s] = "responded" => FromOwnRequest(req[s], response[s])
        /\ \A t \in Slots :
                (Completed(s) /\ Completed(t) /\ req[s] = req[t]) =>
                    /\ pc[s] = pc[t]
                    /\ errors[s] = errors[t]
                    /\ response[s] = response[t]

C10_Witness ==
    \E s, t \in Slots :
        /\ s /= t
        /\ req[s].ep = "create_user" /\ req[t].ep = "create_user"
        /\ pc[s] = "responded" /\ pc[t] = "responded"
        /\ "q" \in DOMAIN req[s].query /\ "q" \in DOMAIN response[s]
        /\ "q" \notin DOMAIN req[t].query /\ "q" \notin DOMAIN response[t]
        /\ response[s]["user"] /= response[t]["user"]

====
